---- MODULE Spec2Model ----
(***************************************************************************)
(* A model of otf (eatonphil/otf), a table database whose transactions     *)
(* are manifests `_log_<id>` written with put-if-absent to a directory.    *)
(* The model follows the final main.go of the repository (kept in the      *)
(* sources as src/unnamed/part_000): the file object storage, the client   *)
(* operations newTx, createTable, writeRow, flushRows, scan, commitTx and  *)
(* the scan iterator.  Operations that reach the directory more than once  *)
(* are split at each file-system call, so that the calls of several        *)
(* clients interleave as they do on a shared directory.                    *)
(***************************************************************************)
EXTENDS Integers, Sequences, FiniteSets, TLC

\* ------------------------------------------------------------------ bounds

\* const DATAOBJECT_SIZE (64 * 1024 in the source), scaled down.
DATAOBJECT_SIZE == 2
\* Transactions a client may begin.
MaxTx == 2
\* Transactions the second client may begin on a directory that fails.
MaxTxSecond == 1
\* Rows a client may write over its whole life.
MaxRows == 4
\* The same, for each of two clients that write and scan.
MaxRowsScanned == 1
\* The same, for each of two clients that both write.
MaxRowsShared == 2
\* The same, for a writer next to a client that only reads.
MaxRowsWriter == 3
\* Injected failures of Write, Sync and Close.
MaxFaults == 1
\* Write calls (chunks of bufSize bytes) an encoded data object takes.
DataobjectChunks == 1
\* next() calls made on one iterator.
MaxNext == 4

Clients == {1, 2}
Tables == {"x"}
ColumnSets == {<<"a", "b">>}

VARIABLES
    files,      \* the directory: name -> [bytes, written]
    tx,         \* client.tx of each client (NilTx: nil)
    pc,         \* where each client is: between calls, or inside one
    call,       \* the locals of the call a client is inside
    ret,        \* the last operation each client called and what it returned
    it,         \* the scan iterator each client holds
    got,        \* what the next() calls on that iterator returned, in order
    faults,     \* failures injected so far
    ntx,        \* transactions each client began so far
    nrows,      \* rows each client wrote so far
    nuuid,      \* uuidv4() calls each client made so far
    hist,       \* of each client's last transaction: the names its newTx listed,
                \* whether a putIfAbsent was under way at that listing, its
                \* id, whether a createTable or writeRow of it succeeded, the
                \* transactions that had committed at that listing and those
                \* whose commitTx had not been called, whether it has
                \* scanned and the rows it had written before that scan,
                \* the transactions whose commit had met a conflict at that
                \* listing
    journal     \* of every transaction (client, ordinal): the rows its
                \* writeRow calls were given, the data objects its flushes
                \* recorded, the tables its createTable calls made, whether
                \* it called flushRows, how far its commitTx got

vars == <<files, tx, pc, call, ret, it, got, faults, ntx, nrows, nuuid, hist, journal>>

\* ------------------------------------------------------------- Go values

\* A Go map with no key.
EmptyMap == [k \in {} |-> 0]

MapPut(m, k, v) == [x \in (DOMAIN m) \cup {k} |-> IF x = k THEN v ELSE m[x]]

MapGet(m, k, default) == IF k \in DOMAIN m THEN m[k] ELSE default

\* A nil slice, a nil pointer.
Nil == <<>>

\* A row []any{client, n}: a string column and a numeric one, whose kind
\* (int before encoding, float64 after) is the third component.
Row(c, n) == <<c, n, "int">>

\* encoding/json: a number comes back as float64, nil as nil.
JsonRow(row) == IF row = Nil THEN Nil ELSE <<row[1], row[2], "float">>

\* The same row up to the numeric kind.
RowId(row) == <<row[1], row[2]>>

\* [DATAOBJECT_SIZE][]any{}: every slot nil.
EmptyData == [i \in 0..(DATAOBJECT_SIZE - 1) |-> Nil]

\* ------------------------------------------------------------ file names

\* fmt.Sprintf("_log_%020d", id)
LogName(id) == <<"_log_", "", id>>

\* fmt.Sprintf("_table_%s_%s", table, name)
TableObjectName(table, name) == <<"_table_", table, name>>

\* strings.HasPrefix(n, prefix), for the two prefixes the names have.
HasPrefix(n, prefix) == prefix = "" \/ n[1] = prefix

\* strconv.Atoi(txLog[len(logPrefix):])
ParseId(n) == n[3]

\* uuidv4(): a name no other call returns.
Uuid(c, k) == 10 * k + c

\* ---------------------------------------------------------------- actions

\* Action{AddDataobject: &DataobjectAction{...}}: one arm is non-nil.
AddDataobjectAction(table, name) ==
    [AddDataobject |-> <<[Name |-> name, Table |-> table]>>, ChangeMetadata |-> Nil]

ChangeMetadataAction(table, columns) ==
    [AddDataobject |-> Nil, ChangeMetadata |-> <<[Table |-> table, Columns |-> columns]>>]

\* ------------------------------------------------------------ transaction

NilTx == [id |-> 0,
          previousActions |-> EmptyMap,
          Actions |-> EmptyMap,
          tables |-> EmptyMap,
          unflushedData |-> EmptyMap,
          unflushedDataPointer |-> EmptyMap]

\* json.Marshal(d.tx): only the exported field reaches the file.
MarshalTx(t) == [kind |-> "tx", Actions |-> t.Actions]

\* json.Marshal(df): the whole array, each row encoded, and Len.
MarshalDataobject(table, name, data, len) ==
    [kind |-> "dataobject", Table |-> table, Name |-> name,
     Data |-> [i \in DOMAIN data |-> JsonRow(data[i])], Len |-> len]

\* The Write calls putIfAbsent makes for the bytes (bufSize bytes each).
Chunks(bytes) == IF bytes.kind = "tx" THEN 1 ELSE DataobjectChunks

NoCall == [name |-> Nil, cont |-> "", table |-> "", row |-> Nil, uuid |-> 0,
           txLogs |-> <<>>, tx |-> NilTx]

NoIterator == [table |-> "", live |-> FALSE,
               unflushedRows |-> EmptyData, unflushedRowsLen |-> 0,
               unflushedRowPointer |-> 0,
               dataobjects |-> <<>>, dataobjectsPointer |-> 0,
               dataobject |-> Nil, dataobjectRowPointer |-> 0]

Init ==
    /\ files = EmptyMap
    /\ tx = [c \in Clients |-> NilTx]
    /\ pc = [c \in Clients |-> "idle"]
    /\ call = [c \in Clients |-> NoCall]
    /\ ret = [c \in Clients |-> [op |-> "", err |-> ""]]
    /\ it = [c \in Clients |-> NoIterator]
    /\ got = [c \in Clients |-> <<>>]
    /\ faults = 0
    /\ ntx = [c \in Clients |-> 0]
    /\ nrows = [c \in Clients |-> 0]
    /\ nuuid = [c \in Clients |-> 0]
    /\ hist = [c \in Clients |-> [listed |-> {}, quiet |-> TRUE, id |-> 0, wrote |-> FALSE,
                                  done |-> {}, open |-> {},
                                  scanned |-> FALSE, before |-> {}, lost |-> {}]]
    /\ journal = [k \in Clients \X (1..MaxTx) |->
                    [rows |-> {}, objects |-> {}, created |-> {},
                     explicit |-> FALSE, commit |-> ""]]

\* -------------------------------------------------- fileObjectStorage

\* Every order in which Readdirnames may hand out the names of a set: the
\* directory order is the file system's, and listPrefix does not sort.
Orders(S) ==
    {o \in [1..Cardinality(S) -> S] : \A i, j \in DOMAIN o : i # j => o[i] # o[j]}

\* fileObjectStorage.listPrefix: the names in the directory with the prefix.
listPrefix(fs, prefix) == Orders({n \in DOMAIN fs : HasPrefix(n, prefix)})

\* os.OpenFile(filename, O_WRONLY|O_EXCL|O_CREATE): the file exists, empty.
Created(fs, name, bytes) == MapPut(fs, name, [bytes |-> bytes, written |-> 0])

\* f.Write(bytes[written:toWrite]): one more chunk is in the file.
Written(fs, name) == [fs EXCEPT ![name].written = @ + 1]

\* Mutant of Refused: the file is opened without O_EXCL and rewritten.
RefusedOverwrites(fs, name, bytes) ==
    MapPut(fs, name, [bytes |-> bytes, written |-> Chunks(bytes)])

\* os.OpenFile with O_EXCL on a name that exists: an error, and the
\* directory as it was.
Refused(fs, name, bytes) == fs

\* Mutant of Removed: the file is left behind.
RemovedNot(fs, name) == fs

\* os.Remove(filename)
Removed(fs, name) == [n \in (DOMAIN fs) \ {name} |-> fs[n]]

\* The file holds all the bytes that were put.
Complete(f) == f.written = Chunks(f.bytes)

\* fileObjectStorage.read followed by json.Unmarshal: the value, or an error
\* when the file is missing or holds only a prefix of the encoding.
ReadErr(fs, name) ==
    IF name \notin DOMAIN fs THEN "errNotExist"
    ELSE IF ~Complete(fs[name]) THEN "errJson"
    ELSE ""

\* ------------------------------------------------------ pure parts of ops

RECURSIVE FoldActions(_, _, _)
\* newTx, the loop over one table's actions of a manifest.
FoldActions(t, table, actions) ==
    IF actions = <<>> THEN t
    ELSE LET a == Head(actions)
             t1 == IF a.AddDataobject # Nil
                   THEN [t EXCEPT !.previousActions =
                            MapPut(@, table, Append(MapGet(@, table, <<>>), a))]
                   ELSE [t EXCEPT !.tables =
                            MapPut(@, table, a.ChangeMetadata[1].Columns)]
         IN FoldActions(t1, table, Tail(actions))

RECURSIVE FoldManifest(_, _, _)
\* newTx, the loop over the tables of one manifest.
FoldManifest(t, actions, todo) ==
    IF todo = {} THEN t
    ELSE LET table == CHOOSE x \in todo : TRUE
         IN FoldManifest(FoldActions(t, table, actions[table]), actions, todo \ {table})

\* Mutant of Flushed: the pointer is not reset.
FlushedKeepsPointer(t, table, name) ==
    [t EXCEPT !.Actions = MapPut(@, table,
                  Append(MapGet(@, table, <<>>),
                         [AddDataobject |-> <<[Name |-> name, Table |-> table]>>,
                          ChangeMetadata |-> <<>>]))]

\* flushRows, after putIfAbsent succeeded: the action is recorded and the
\* pointer reset.
Flushed(t, table, name) ==
    [t EXCEPT !.Actions = MapPut(@, table,
                  Append(MapGet(@, table, <<>>), AddDataobjectAction(table, name))),
              !.unflushedDataPointer = MapPut(@, table, 0)]

\* Mutant of AfterFlush: the action is recorded whatever putIfAbsent returned.
AfterFlushAlways(t, table, name, err) == Flushed(t, table, name)

\* flushRows from the return of putIfAbsent on: with an error it returns at
\* once, the transaction as it was.
AfterFlush(t, table, name, err) == IF err = "" THEN Flushed(t, table, name) ELSE t

\* writeRow, its last two statements: the row goes to slot `pointer` and the
\* table's pointer is incremented.
Stored(t, table, pointer, row) ==
    [t EXCEPT !.unflushedData = MapPut(@, table, [@[table] EXCEPT ![pointer] = row]),
              !.unflushedDataPointer = MapPut(@, table, @[table] + 1)]

\* writeRow, the lazy initialisation of the table's buffer.
Initialised(t, table) ==
    IF table \in DOMAIN t.unflushedDataPointer THEN t
    ELSE [t EXCEPT !.unflushedDataPointer = MapPut(@, table, 0),
                   !.unflushedData = MapPut(@, table, EmptyData)]

\* commitTx: the tables whose flushRows has something to write.
ToFlush(t) ==
    {table \in DOMAIN t.tables : MapGet(t.unflushedDataPointer, table, 0) # 0}

\* Mutant of Wrote: every commit writes a manifest.
WroteAlways(t) == TRUE

\* commitTx: `wrote`.
Wrote(t) == \E table \in DOMAIN t.Actions : Len(t.Actions[table]) > 0

\* ------------------------------------------------------------ call frames

\* Mutant of Return: an error ends the transaction.
ReturnDropsTx(c, t, op, err) ==
    /\ tx' = [tx EXCEPT ![c] = IF err = "" THEN t ELSE NilTx]
    /\ pc' = [pc EXCEPT ![c] = "idle"]
    /\ call' = [call EXCEPT ![c] = NoCall]
    /\ ret' = [ret EXCEPT ![c] = [op |-> op, err |-> err]]

\* The operation returns err to its caller, leaving the transaction at t.
Return(c, t, op, err) ==
    /\ tx' = [tx EXCEPT ![c] = t]
    /\ pc' = [pc EXCEPT ![c] = "idle"]
    /\ call' = [call EXCEPT ![c] = NoCall]
    /\ ret' = [ret EXCEPT ![c] = [op |-> op, err |-> err]]

\* A Go runtime panic: the client's process is gone.
Panic(c, op) ==
    /\ pc' = [pc EXCEPT ![c] = "crashed"]
    /\ call' = [call EXCEPT ![c] = NoCall]
    /\ ret' = [ret EXCEPT ![c] = [op |-> op, err |-> "panic"]]
    /\ UNCHANGED tx

\* flushRows up to the OpenFile of putIfAbsent: the data object is built from
\* the whole buffer and the pointer, and its file created.
OpenDataobject(c, t, table, cont, row, fs) ==
    LET uuid == Uuid(c, nuuid[c] + 1)
        name == TableObjectName(table, uuid)
        bytes == MarshalDataobject(table, uuid, t.unflushedData[table],
                                   t.unflushedDataPointer[table])
    IN /\ nuuid' = [nuuid EXCEPT ![c] = @ + 1]
       /\ files' = Created(fs, name, bytes)
       /\ tx' = [tx EXCEPT ![c] = t]
       /\ pc' = [pc EXCEPT ![c] = "put_write"]
       /\ call' = [call EXCEPT ![c] = [NoCall EXCEPT !.name = name, !.cont = cont,
                                        !.table = table, !.row = row, !.uuid = uuid]]
       /\ UNCHANGED ret

\* commitTx from its flush loop on, with the transaction at t: the next
\* flushRows that writes, or the read-only return, or the OpenFile of the
\* manifest.
CommitFrom(c, t, fs) ==
    IF ToFlush(t) # {}
    THEN \E table \in ToFlush(t) : OpenDataobject(c, t, table, "commitFlush", Nil, fs)
    ELSE IF ~Wrote(t)
    THEN /\ Return(c, t, "commitTx", "")
         /\ files' = fs
         /\ UNCHANGED nuuid
    ELSE LET name == LogName(t.id)
             t1 == [t EXCEPT !.previousActions = EmptyMap]
         IN IF name \in DOMAIN fs
            THEN /\ Return(c, NilTx, "commitTx", "errExist")
                 /\ files' = Refused(fs, name, MarshalTx(t1))
                 /\ UNCHANGED nuuid
            ELSE /\ files' = Created(fs, name, MarshalTx(t1))
                 /\ tx' = [tx EXCEPT ![c] = t1]
                 /\ pc' = [pc EXCEPT ![c] = "put_write"]
                 /\ call' = [call EXCEPT ![c] =
                                [NoCall EXCEPT !.name = name, !.cont = "commitLog"]]
                 /\ UNCHANGED <<ret, nuuid>>

\* putIfAbsent returned err (""  for nil) to the operation that called it,
\* which runs on to its own return or to its next file-system call.
Resume(c, err, fs) ==
    LET f == call[c]
        t == tx[c]
    IN CASE f.cont = "flushRows" ->
              /\ Return(c, AfterFlush(t, f.table, f.uuid, err), "flushRows", err)
              /\ files' = fs
              /\ UNCHANGED nuuid
         [] f.cont = "writeRow" ->
              \* the error of flushRows is dropped and pointer set to 0
              /\ Return(c, Stored(AfterFlush(t, f.table, f.uuid, err), f.table, 0, f.row),
                        "writeRow", "")
              /\ files' = fs
              /\ UNCHANGED nuuid
         [] f.cont = "commitFlush" ->
              IF err = ""
              THEN CommitFrom(c, Flushed(t, f.table, f.uuid), fs)
              ELSE /\ Return(c, t, "commitTx", err)
                   /\ files' = fs
                   /\ UNCHANGED nuuid
         [] f.cont = "commitLog" ->
              /\ Return(c, NilTx, "commitTx", err)
              /\ files' = fs
              /\ UNCHANGED nuuid

\* ------------------------------------------------------------- operations

\* The transaction the client began last.
ThisTx(c) == <<c, ntx[c]>>

\* The journal after a step of the client's commitTx (cont: where in commitTx
\* the step began) or of another operation: the commit is under way, or has
\* returned an error, or success with or without a manifest. flushed: the
\* step is the successful return of a putIfAbsent.
CommitProgress(c, cont, flushed) ==
    LET j == IF flushed /\ cont \in {"flushRows", "writeRow", "commitFlush"}
             THEN [journal EXCEPT ![ThisTx(c)].objects = @ \cup {call[c].name}]
             ELSE journal
    IN journal' = IF cont \notin {"commitTx", "commitFlush", "commitLog"} THEN j
                  ELSE [j EXCEPT ![ThisTx(c)].commit =
                           IF pc'[c] # "idle" THEN "called"
                           ELSE IF ret'[c].err # "" THEN ret'[c].err
                           ELSE IF cont = "commitLog" THEN "ok" ELSE "readonly"]

\* client.newTx up to and including the listing: the existing-transaction
\* check, listPrefix, the id from the last name listed, the empty
\* transaction; with no manifest to read it returns here.
newTx(c) ==
    /\ pc[c] = "idle"
    /\ IF tx[c] # NilTx
       THEN /\ Return(c, tx[c], "newTx", "errExistingTx")
            /\ UNCHANGED <<ntx, hist, journal>>
       ELSE /\ ntx[c] < MaxTx
            /\ ntx' = [ntx EXCEPT ![c] = @ + 1]
            /\ \E txLogs \in listPrefix(files, "_log_") :
                 LET lastTxId == IF Len(txLogs) > 0
                                 THEN ParseId(txLogs[Len(txLogs)]) ELSE 0
                     t == [NilTx EXCEPT !.id = lastTxId + 1]
                 IN /\ hist' = [hist EXCEPT ![c] =
                           [listed |-> {txLogs[i] : i \in DOMAIN txLogs},
                            quiet |-> \A o \in Clients : call[o].name = Nil,
                            id |-> t.id, wrote |-> FALSE,
                            done |-> {k \in DOMAIN journal : journal[k].commit = "ok"},
                            open |-> {k \in DOMAIN journal : journal[k].commit = ""},
                            scanned |-> FALSE, before |-> {},
                            lost |-> {k \in DOMAIN journal :
                                         journal[k].commit = "errExist"}]]
                    /\ IF txLogs = <<>>
                       THEN Return(c, t, "newTx", "")
                       ELSE /\ pc' = [pc EXCEPT ![c] = "newTx"]
                            /\ call' = [call EXCEPT ![c] =
                                           [NoCall EXCEPT !.txLogs = txLogs, !.tx = t]]
                            /\ UNCHANGED <<tx, ret>>
    /\ UNCHANGED <<files, it, got, faults, nrows, nuuid, journal>>

\* client.newTx, one turn of its loop over txLogs: getTxActions reads and
\* decodes the manifest and its actions are folded into the transaction;
\* after the last one d.tx is set.
newTxRead(c) ==
    /\ pc[c] = "newTx"
    /\ LET name == Head(call[c].txLogs)
           err == ReadErr(files, name)
       IN IF err # ""
          THEN Return(c, NilTx, "newTx", err)
          ELSE LET actions == files[name].bytes.Actions
                   t == FoldManifest(call[c].tx, actions, DOMAIN actions)
               IN IF Tail(call[c].txLogs) = <<>>
                  THEN Return(c, t, "newTx", "")
                  ELSE /\ call' = [call EXCEPT ![c].txLogs = Tail(@), ![c].tx = t]
                       /\ UNCHANGED <<tx, pc, ret>>
    /\ UNCHANGED <<files, it, got, faults, ntx, nrows, nuuid, hist, journal>>

\* Mutant of createTable: a table that exists is created again.
createTableAgain(c, table, columns) ==
    /\ pc[c] = "idle"
    /\ IF tx[c] = NilTx
       THEN /\ Return(c, tx[c], "createTable", "errNoTx")
            /\ UNCHANGED <<hist, journal>>
       ELSE /\ Return(c, [tx[c] EXCEPT
                           !.tables = MapPut(@, table, columns),
                           !.Actions = MapPut(@, table,
                               Append(MapGet(@, table, <<>>),
                                      ChangeMetadataAction(table, columns)))],
                     "createTable", IF table \in DOMAIN tx[c].tables
                                    THEN "errTableExists" ELSE "")
            /\ hist' = [hist EXCEPT ![c].wrote = TRUE]
            /\ journal' = [journal EXCEPT ![ThisTx(c)].created = @ \cup {<<table, columns>>}]
    /\ UNCHANGED <<files, it, got, faults, ntx, nrows, nuuid>>

\* client.createTable
createTable(c, table, columns) ==
    /\ pc[c] = "idle"
    /\ IF tx[c] = NilTx
       THEN /\ Return(c, tx[c], "createTable", "errNoTx")
            /\ UNCHANGED <<hist, journal>>
       ELSE IF table \in DOMAIN tx[c].tables
       THEN /\ Return(c, tx[c], "createTable", "errTableExists")
            /\ UNCHANGED <<hist, journal>>
       ELSE /\ Return(c, [tx[c] EXCEPT
                           !.tables = MapPut(@, table, columns),
                           !.Actions = MapPut(@, table,
                               Append(MapGet(@, table, <<>>),
                                      ChangeMetadataAction(table, columns)))],
                     "createTable", "")
            /\ hist' = [hist EXCEPT ![c].wrote = TRUE]
            /\ journal' = [journal EXCEPT ![ThisTx(c)].created = @ \cup {<<table, columns>>}]
    /\ UNCHANGED <<files, it, got, faults, ntx, nrows, nuuid>>

\* client.writeRow, to its return or, with a full buffer, to the OpenFile of
\* the flushRows it calls.
writeRow(c, table) ==
    /\ pc[c] = "idle"
    /\ IF tx[c] = NilTx
       THEN /\ Return(c, tx[c], "writeRow", "errNoTx")
            /\ UNCHANGED <<files, nrows, nuuid, hist, journal>>
       ELSE IF table \notin DOMAIN tx[c].tables
       THEN /\ Return(c, tx[c], "writeRow", "errNoTable")
            /\ UNCHANGED <<files, nrows, nuuid, hist, journal>>
       ELSE /\ nrows[c] < MaxRows
            /\ nrows' = [nrows EXCEPT ![c] = @ + 1]
            /\ hist' = [hist EXCEPT ![c].wrote = TRUE]
            /\ LET row == Row(c, nrows[c] + 1)
                   pointer == MapGet(tx[c].unflushedDataPointer, table, 0)
                   t == Initialised(tx[c], table)
                   noted == [journal EXCEPT ![ThisTx(c)].rows = @ \cup {RowId(row)}]
               IN IF pointer = DATAOBJECT_SIZE
                  THEN /\ OpenDataobject(c, t, table, "writeRow", row, files)
                       /\ journal' = noted
                  ELSE IF pointer > DATAOBJECT_SIZE
                  THEN \* index out of range
                       /\ Panic(c, "writeRow")
                       /\ UNCHANGED <<files, nuuid, journal>>
                  ELSE /\ Return(c, Stored(t, table, pointer, row), "writeRow", "")
                       /\ journal' = noted
                       /\ UNCHANGED <<files, nuuid>>
    /\ UNCHANGED <<it, got, faults, ntx>>

\* Mutant of flushRows: the iterator the client holds shares the list of
\* data objects with the transaction and sees the new one.
flushRowsSeenByIterator(c, table) ==
    /\ pc[c] = "idle"
    /\ IF tx[c] = NilTx
       THEN /\ Return(c, tx[c], "flushRows", "errNoTx")
            /\ UNCHANGED <<files, nuuid, journal, it>>
       ELSE /\ journal' = [journal EXCEPT ![ThisTx(c)].explicit = TRUE]
            /\ IF MapGet(tx[c].unflushedDataPointer, table, 0) = 0
               THEN /\ Return(c, tx[c], "flushRows", "")
                    /\ UNCHANGED <<files, nuuid, it>>
               ELSE /\ OpenDataobject(c, tx[c], table, "flushRows", Nil, files)
                    /\ it' = [it EXCEPT ![c].dataobjects =
                                 IF it[c].live THEN Append(@, Uuid(c, nuuid[c] + 1)) ELSE @]
    /\ UNCHANGED <<got, faults, ntx, nrows, hist>>

\* client.flushRows, to its early return or to the OpenFile of putIfAbsent.
flushRows(c, table) ==
    /\ pc[c] = "idle"
    /\ IF tx[c] = NilTx
       THEN /\ Return(c, tx[c], "flushRows", "errNoTx")
            /\ UNCHANGED <<files, nuuid, journal>>
       ELSE /\ journal' = [journal EXCEPT ![ThisTx(c)].explicit = TRUE]
            /\ IF MapGet(tx[c].unflushedDataPointer, table, 0) = 0
               THEN /\ Return(c, tx[c], "flushRows", "")
                    /\ UNCHANGED <<files, nuuid>>
               ELSE OpenDataobject(c, tx[c], table, "flushRows", Nil, files)
    /\ UNCHANGED <<it, got, faults, ntx, nrows, hist>>

\* client.commitTx, to its return or to its first OpenFile.
commitTx(c) ==
    /\ pc[c] = "idle"
    /\ IF tx[c] = NilTx
       THEN /\ Return(c, tx[c], "commitTx", "errNoTx")
            /\ UNCHANGED <<files, nuuid, journal>>
       ELSE /\ CommitFrom(c, tx[c], files)
            /\ CommitProgress(c, "commitTx", FALSE)
    /\ UNCHANGED <<it, got, faults, ntx, nrows, hist>>

\* ------------------------------------------------- putIfAbsent, step by step

\* One turn of the write loop.
putWrite(c) ==
    /\ pc[c] = "put_write"
    /\ files' = Written(files, call[c].name)
    /\ pc' = [pc EXCEPT ![c] = IF Complete(files'[call[c].name])
                                THEN "put_sync" ELSE "put_write"]
    /\ UNCHANGED <<tx, call, ret, it, got, faults, ntx, nrows, nuuid, hist, journal>>

\* f.Write fails: the file is removed and the error returned.
putWriteFails(c) ==
    /\ pc[c] = "put_write"
    /\ faults < MaxFaults
    /\ faults' = faults + 1
    /\ Resume(c, "errIO", Removed(files, call[c].name))
    /\ CommitProgress(c, call[c].cont, FALSE)
    /\ UNCHANGED <<it, got, ntx, nrows, hist>>

\* f.Sync() and f.Close() both succeed, and the return nil. Nothing another
\* client can see changes between the two calls.
putSyncClose(c) ==
    /\ pc[c] = "put_sync"
    /\ Resume(c, "", files)
    /\ CommitProgress(c, call[c].cont, TRUE)
    /\ UNCHANGED <<it, got, faults, ntx, nrows, hist>>

\* f.Sync fails: the file is removed and the error returned.
putSyncFails(c) ==
    /\ pc[c] = "put_sync"
    /\ faults < MaxFaults
    /\ faults' = faults + 1
    /\ Resume(c, "errIO", Removed(files, call[c].name))
    /\ CommitProgress(c, call[c].cont, FALSE)
    /\ UNCHANGED <<it, got, ntx, nrows, hist>>

\* f.Sync succeeds and f.Close fails: the file is removed and the error
\* returned.
putCloseFails(c) ==
    /\ pc[c] = "put_sync"
    /\ faults < MaxFaults
    /\ faults' = faults + 1
    /\ Resume(c, "errIO", Removed(files, call[c].name))
    /\ CommitProgress(c, call[c].cont, FALSE)
    /\ UNCHANGED <<it, got, ntx, nrows, hist>>

\* ------------------------------------------------------------------- scan

RECURSIVE DataobjectNames(_)
\* scan: the names of the AddDataobject actions, in order.
DataobjectNames(actions) ==
    IF actions = <<>> THEN <<>>
    ELSE IF Head(actions).AddDataobject # Nil
    THEN <<Head(actions).AddDataobject[1].Name>> \o DataobjectNames(Tail(actions))
    ELSE DataobjectNames(Tail(actions))

\* client.scan
scan(c, table) ==
    /\ pc[c] = "idle"
    /\ IF tx[c] = NilTx
       THEN /\ Return(c, tx[c], "scan", "errNoTx")
            /\ it' = [it EXCEPT ![c] = NoIterator]
            /\ UNCHANGED hist
       ELSE /\ Return(c, tx[c], "scan", "")
            /\ hist' = [hist EXCEPT ![c].scanned = TRUE,
                                    ![c].before = journal[ThisTx(c)].rows]
            /\ it' = [it EXCEPT ![c] =
                 [table |-> table, live |-> TRUE,
                  unflushedRows |-> MapGet(tx[c].unflushedData, table, EmptyData),
                  unflushedRowsLen |-> MapGet(tx[c].unflushedDataPointer, table, 0),
                  unflushedRowPointer |-> 0,
                  dataobjects |-> DataobjectNames(
                      MapGet(tx[c].previousActions, table, <<>>)
                      \o MapGet(tx[c].Actions, table, <<>>)),
                  dataobjectsPointer |-> 0,
                  dataobject |-> Nil,
                  dataobjectRowPointer |-> 0]]
    /\ got' = [got EXCEPT ![c] = <<>>]
    /\ UNCHANGED <<files, faults, ntx, nrows, nuuid, journal>>

\* json.Unmarshal(bytes, &do) in readDataobject
UnmarshalDataobject(bytes) ==
    [Table |-> bytes.Table, Name |-> bytes.Name, Data |-> bytes.Data, Len |-> bytes.Len]

RECURSIVE nextOf(_, _)
\* scanIterator.next: the iterator after the call, the row and the error it
\* returns ("panic": an index out of range).
nextOf(si, fs) ==
    IF si.unflushedRowPointer < si.unflushedRowsLen
    THEN IF si.unflushedRowPointer >= DATAOBJECT_SIZE
         THEN [si |-> si, row |-> Nil, err |-> "panic"]
         ELSE [si |-> [si EXCEPT !.unflushedRowPointer = @ + 1],
               row |-> si.unflushedRows[si.unflushedRowPointer], err |-> ""]
    ELSE IF si.dataobjectsPointer = Len(si.dataobjects)
    THEN [si |-> si, row |-> Nil, err |-> ""]
    ELSE LET name == TableObjectName(si.table, si.dataobjects[si.dataobjectsPointer + 1])
             rerr == IF si.dataobject = Nil THEN ReadErr(fs, name) ELSE ""
         IN IF rerr # ""
            THEN [si |-> si, row |-> Nil, err |-> rerr]
            ELSE LET o == IF si.dataobject = Nil
                          THEN <<UnmarshalDataobject(fs[name].bytes)>>
                          ELSE si.dataobject
                     si1 == [si EXCEPT !.dataobject = o]
                 IN IF si1.dataobjectRowPointer > o[1].Len
                    THEN nextOf([si1 EXCEPT !.dataobjectsPointer = @ + 1,
                                            !.dataobject = Nil,
                                            !.dataobjectRowPointer = 0], fs)
                    ELSE IF si1.dataobjectRowPointer >= DATAOBJECT_SIZE
                    THEN [si |-> si1, row |-> Nil, err |-> "panic"]
                    ELSE [si |-> [si1 EXCEPT !.dataobjectRowPointer = @ + 1],
                          row |-> o[1].Data[si1.dataobjectRowPointer], err |-> ""]

\* One call of next on the iterator the client holds.
next(c) ==
    /\ pc[c] = "idle"
    /\ it[c].live
    /\ Len(got[c]) < MaxNext
    /\ LET r == nextOf(it[c], files)
       IN IF r.err = "panic"
          THEN /\ Panic(c, "next")
               /\ UNCHANGED <<it, got>>
          ELSE /\ it' = [it EXCEPT ![c] = r.si]
               /\ got' = [got EXCEPT ![c] = Append(@, [row |-> r.row, err |-> r.err])]
               /\ ret' = [ret EXCEPT ![c] = [op |-> "next", err |-> r.err]]
               /\ UNCHANGED <<tx, pc, call>>
    /\ UNCHANGED <<files, faults, ntx, nrows, nuuid, hist, journal>>

\* One call of next during which os.ReadFile fails for one of the listed
\* data objects: the read of that object returns an error, and the file is
\* as it was.
nextReadFails(c) ==
    /\ pc[c] = "idle"
    /\ it[c].live
    /\ Len(got[c]) < MaxNext
    /\ faults < MaxFaults
    /\ \E u \in {it[c].dataobjects[i] : i \in DOMAIN it[c].dataobjects} :
          LET r == nextOf(it[c], Removed(files, TableObjectName(it[c].table, u)))
          IN /\ r.err \notin {"", "panic"}
             /\ it' = [it EXCEPT ![c] = r.si]
             /\ got' = [got EXCEPT ![c] = Append(@, [row |-> r.row, err |-> r.err])]
             /\ ret' = [ret EXCEPT ![c] = [op |-> "next", err |-> r.err]]
    /\ faults' = faults + 1
    /\ UNCHANGED <<tx, pc, call, files, ntx, nrows, nuuid, hist, journal>>

\* ---------------------------------------------------------- specification

\* The client has a transaction.
Live(c) == tx[c] # NilTx

\* A step inside putIfAbsent.
putStep(c) ==
    \/ putWrite(c)
    \/ putSyncClose(c)

\* A failing step inside putIfAbsent.
putFails(c) ==
    \/ putWriteFails(c)
    \/ putSyncFails(c)
    \/ putCloseFails(c)

\* Two clients that begin, create tables, write rows and commit (which
\* flushes), on a directory whose Write, Sync and Close may fail.
Next ==
    \E c \in Clients :
        \/ ntx[c] < (IF c = 1 THEN MaxTx ELSE MaxTxSecond) /\ newTx(c)
        \/ newTxRead(c)
        \/ \E table \in Tables, columns \in ColumnSets :
              Live(c) /\ createTable(c, table, columns)
        \/ \E table \in Tables :
              Live(c) /\ nrows[c] < MaxRowsShared /\ writeRow(c, table)
        \/ Live(c) /\ commitTx(c)
        \/ putStep(c)
        \/ putFails(c)

Spec == Init /\ [][Next]_vars

\* Two clients that both write, on a directory that does not fail.
NextNoFault ==
    \E c \in Clients :
        \/ newTx(c)
        \/ newTxRead(c)
        \/ \E table \in Tables, columns \in ColumnSets :
              Live(c) /\ createTable(c, table, columns)
        \/ \E table \in Tables :
              Live(c) /\ nrows[c] < MaxRowsShared /\ writeRow(c, table)
        \/ Live(c) /\ commitTx(c)
        \/ putStep(c)

SpecNoFault == Init /\ [][NextNoFault]_vars

\* The client that writes, and the one that only reads.
Writer == 1
Reader == 2

\* A writer and a reader on a directory that does not fail: the writer
\* begins, creates tables, writes rows, flushes and commits; the reader
\* begins, scans, iterates and commits.
NextSnapshot ==
    \/ newTx(Writer)
    \/ \E table \in Tables, columns \in ColumnSets :
          Live(Writer) /\ createTable(Writer, table, columns)
    \/ \E table \in Tables :
          Live(Writer) /\ nrows[Writer] < MaxRowsWriter /\ writeRow(Writer, table)
    \/ \E table \in Tables : Live(Writer) /\ flushRows(Writer, table)
    \/ Live(Writer) /\ commitTx(Writer)
    \/ ntx[Reader] < MaxTxSecond /\ newTx(Reader)
    \/ \E table \in Tables : Live(Reader) /\ scan(Reader, table)
    \/ next(Reader)
    \/ Live(Reader) /\ commitTx(Reader)
    \/ \E c \in Clients : newTxRead(c)
    \/ \E c \in Clients : putStep(c)

SpecSnapshot == Init /\ [][NextSnapshot]_vars

\* One client alone, every operation in every state of the client, on a
\* directory that may fail.
NextOne ==
    \/ newTx(Writer)
    \/ newTxRead(Writer)
    \/ \E table \in Tables, columns \in ColumnSets : createTable(Writer, table, columns)
    \/ \E table \in Tables : writeRow(Writer, table)
    \/ \E table \in Tables : flushRows(Writer, table)
    \/ \E table \in Tables : scan(Writer, table)
    \/ next(Writer)
    \/ commitTx(Writer)
    \/ putStep(Writer)
    \/ putFails(Writer)

SpecOne == Init /\ [][NextOne]_vars

\* Two clients that begin, create tables, write rows and commit, on a
\* directory that does not fail; the first of them also scans and iterates,
\* the second begins fewer transactions.
NextScanned ==
    \/ \E c \in Clients :
          \/ ntx[c] < (IF c = Writer THEN MaxTx ELSE MaxTxSecond) /\ newTx(c)
          \/ newTxRead(c)
          \/ \E table \in Tables, columns \in ColumnSets :
                Live(c) /\ createTable(c, table, columns)
          \/ \E table \in Tables :
                Live(c) /\ nrows[c] < MaxRowsScanned /\ writeRow(c, table)
          \/ Live(c) /\ commitTx(c)
          \/ putStep(c)
    \/ \E table \in Tables : Live(Writer) /\ scan(Writer, table)
    \/ next(Writer)

SpecScanned == Init /\ [][NextScanned]_vars

\* One client that calls every operation with and without a transaction
\* and another that never begins one and calls the others, on a directory
\* that does not fail.
NextLifecycle ==
    \/ newTx(Writer)
    \/ newTxRead(Writer)
    \/ \E c \in Clients, table \in Tables, columns \in ColumnSets :
          createTable(c, table, columns)
    \/ \E c \in Clients, table \in Tables :
          (~Live(c) \/ nrows[c] < MaxRowsScanned) /\ writeRow(c, table)
    \/ \E c \in Clients, table \in Tables : flushRows(c, table)
    \/ \E c \in Clients, table \in Tables : scan(c, table)
    \/ \E c \in Clients : commitTx(c)
    \/ putStep(Writer)

SpecLifecycle == Init /\ [][NextLifecycle]_vars

\* One client that writes, flushes, commits, scans and iterates, on a
\* directory whose ReadFile may fail.
NextReadFails ==
    \/ newTx(Writer)
    \/ newTxRead(Writer)
    \/ \E table \in Tables, columns \in ColumnSets :
          Live(Writer) /\ createTable(Writer, table, columns)
    \/ \E table \in Tables :
          Live(Writer) /\ nrows[Writer] < MaxRowsShared /\ writeRow(Writer, table)
    \/ \E table \in Tables : Live(Writer) /\ flushRows(Writer, table)
    \/ \E table \in Tables : Live(Writer) /\ scan(Writer, table)
    \/ next(Writer)
    \/ nextReadFails(Writer)
    \/ Live(Writer) /\ commitTx(Writer)
    \/ putStep(Writer)

SpecReadFails == Init /\ [][NextReadFails]_vars

\* The tables of two clients that create different ones.
TwoTables == {"x", "y"}

\* Two clients that begin, create tables among two and commit, on a
\* directory whose Write, Sync and Close may fail.
NextTables ==
    \E c \in Clients :
        \/ ntx[c] < (IF c = Writer THEN MaxTx ELSE MaxTxSecond) /\ newTx(c)
        \/ newTxRead(c)
        \/ \E table \in TwoTables, columns \in ColumnSets :
              Live(c) /\ createTable(c, table, columns)
        \/ Live(c) /\ commitTx(c)
        \/ putStep(c)
        \/ putFails(c)

SpecTables == Init /\ [][NextTables]_vars

\* The columns each of two clients gives the tables it creates.
ColumnsOf(c) == IF c = Writer THEN <<"a", "b">> ELSE <<"a">>

\* Two clients that begin, create tables among two, each with its own
\* columns, and commit, on a directory whose Write, Sync and Close may fail.
NextMetadata ==
    \E c \in Clients :
        \/ newTx(c)
        \/ newTxRead(c)
        \/ \E table \in TwoTables :
              Live(c) /\ createTable(c, table, ColumnsOf(c))
        \/ Live(c) /\ commitTx(c)
        \/ putStep(c)
        \/ putFails(c)

SpecMetadata == Init /\ [][NextMetadata]_vars

\* ------------------------------------------------------------------ claims

\* The ids of the _log_ keys of a set of names.
Ids(names) == {ParseId(n) : n \in {m \in names : HasPrefix(m, "_log_")}}

\* The largest of a set of ids, 0 for none.
MaxId(S) == IF S = {} THEN 0 ELSE CHOOSE x \in S : \A y \in S : y <= x

\* The client whose uuidv4() call made the name.
Owner(uuid) == uuid % 10

\* commitTx has returned on a client that had a transaction.
Committed(c) ==
    pc[c] = "idle" /\ ret[c].op = "commitTx" /\ ret[c].err # "errNoTx"

\* The names of the data objects a manifest adds.
ManifestObjects(bytes) ==
    UNION {{a.AddDataobject[1].Name :
              a \in {bytes.Actions[t][i] : i \in DOMAIN bytes.Actions[t]}
                   \ {x \in {bytes.Actions[t][i] : i \in DOMAIN bytes.Actions[t]} :
                          x.AddDataobject = Nil}} :
           t \in DOMAIN bytes.Actions}

\* C1: of two clients whose transactions began when the largest log id was
\* N (no putIfAbsent under way at either listing) and which both hold a
\* pending action at commit, exactly one commitTx returns success;
\* _log_<N+1> then exists and holds only the winner's actions.
C1_ExactlyOneCommits ==
    \A a, b \in Clients :
        (/\ a # b
         /\ Committed(a) /\ Committed(b)
         /\ hist[a].wrote /\ hist[b].wrote
         /\ hist[a].quiet /\ hist[b].quiet
         /\ MaxId(Ids(hist[a].listed)) = MaxId(Ids(hist[b].listed)))
        => LET n == LogName(MaxId(Ids(hist[a].listed)) + 1)
               winner == IF ret[a].err = "" THEN a ELSE b
           IN /\ (ret[a].err = "") # (ret[b].err = "")
              /\ n \in DOMAIN files
              /\ \A u \in ManifestObjects(files[n].bytes) : Owner(u) = winner

\* C5: after commitTx returned on a client that had a transaction, with any
\* outcome, the client has no transaction.
C5_CommitConsumesTx ==
    \A c \in Clients : Committed(c) => tx[c] = NilTx

\* C6: the ids of the existing _log_ keys are exactly 1..k for some k >= 0.
C6_LogContiguous ==
    Ids(DOMAIN files) = 1..MaxId(Ids(DOMAIN files))

\* C7: newTx gives the transaction the id max(ids listed) + 1, or 1 when no
\* _log_ key was listed.
C7_IdIsMaxPlusOne ==
    \A c \in Clients : Live(c) => tx[c].id = MaxId(Ids(hist[c].listed)) + 1

\* C8: when commitTx has succeeded in creating _log_<N>, the transaction's
\* newTx had listed exactly _log_1 .. _log_<N-1>, and none of the manifests
\* it read has been removed.
C8_SerialOrder ==
    \A c \in Clients :
        (Committed(c) /\ ret[c].err = "" /\ tx[c] = NilTx)
        => /\ Ids(hist[c].listed) = 1..(hist[c].id - 1)
           /\ hist[c].listed \subseteq DOMAIN files

\* C9: a name that listPrefix returned, when read, yields the complete bytes
\* that were put: newTx never fails to read or decode a manifest it listed.
C9_ReadersSeeCompleteObjects ==
    \A c \in Clients :
        ~(ret[c].op = "newTx" /\ ret[c].err \in {"errJson", "errNotExist"})

\* What a consumer that calls next until a nil row collects: the rows
\* returned before the first nil row or error.
RECURSIVE Yield(_)
Yield(g) ==
    IF g = <<>> \/ Head(g).row = Nil \/ Head(g).err # "" THEN <<>>
    ELSE <<RowId(Head(g).row)>> \o Yield(Tail(g))

\* next has returned (nil, nil): the scan is over for its consumer.
Ended(g) == \E i \in DOMAIN g : g[i].row = Nil /\ g[i].err = ""

\* The elements of a sequence.
Range(q) == {q[i] : i \in DOMAIN q}

\* C2: a scan by a transaction R yields every row of the transactions whose
\* commit had succeeded when R began and no row of a transaction whose
\* commitTx had not been called by then.
C2_SnapshotIsolation ==
    \A r \in Clients :
        (Live(r) /\ hist[r].scanned /\ Ended(got[r]))
        => /\ \A k \in hist[r].done : journal[k].rows \subseteq Range(Yield(got[r]))
           /\ \A k \in hist[r].open :
                 k[1] # r => journal[k].rows \cap Range(Yield(got[r])) = {}

\* The first n rows of a buffer or data object, by identity.
ValidRows(data, n) ==
    [i \in 1..(IF n < DATAOBJECT_SIZE THEN n ELSE DATAOBJECT_SIZE) |-> RowId(data[i - 1])]

RECURSIVE ObjectRows(_, _, _)
\* The valid rows of the data objects of a table with the names given, in order.
ObjectRows(fs, table, names) ==
    IF names = <<>> THEN <<>>
    ELSE LET o == fs[TableObjectName(table, Head(names))].bytes
         IN ValidRows(o.Data, o.Len) \o ObjectRows(fs, table, Tail(names))

\* C3: a scan yields the rows of the unflushed buffer in insertion order,
\* then the rows of the data objects of previousActions and of the
\* transaction's own flushes, and with them every row the transaction wrote
\* before the scan.
C3_ReadYourWrites ==
    \A c \in Clients :
        (Live(c) /\ hist[c].scanned /\ Ended(got[c]))
        => /\ Yield(got[c]) =
                ValidRows(it[c].unflushedRows, it[c].unflushedRowsLen)
                \o ObjectRows(files, it[c].table, it[c].dataobjects)
           /\ hist[c].before \subseteq Range(Yield(got[c]))

\* The rows next has returned, by identity.
Returned(g) == {RowId(g[i].row) : i \in {j \in DOMAIN g : g[j].row # Nil}}

\* C11: the data objects of a transaction whose commitTx met a conflict stay
\* in the directory, and no scan of a transaction that began after that
\* conflict lists one of them or returns one of its rows.
C11_OrphansUnseen ==
    /\ \A k \in DOMAIN journal :
          journal[k].commit = "errExist"
          => \A n \in journal[k].objects : n \in DOMAIN files /\ Complete(files[n])
    /\ \A r \in Clients :
          hist[r].scanned
          => \A k \in hist[r].lost :
                /\ \A u \in Range(it[r].dataobjects) :
                      TableObjectName(it[r].table, u) \notin journal[k].objects
                /\ journal[k].rows \cap Returned(got[r]) = {}

\* A transaction that began after a conflict left a data object behind has
\* scanned and been given rows up to the end of sequence.
C11_Witness ==
    \E r \in Clients :
        /\ hist[r].scanned /\ Ended(got[r]) /\ Yield(got[r]) # <<>>
        /\ \E k \in hist[r].lost :
              journal[k].objects # {} /\ journal[k].rows # {}

\* The keys at which the claims expect the data objects a manifest adds.
ManifestAdds(bytes) ==
    UNION {{<<"_table_", a.AddDataobject[1].Table, a.AddDataobject[1].Name>> :
              a \in {x \in Range(bytes.Actions[t]) : x.AddDataobject # Nil}} :
           t \in DOMAIN bytes.Actions}

\* C12: every data object a manifest in the directory adds exists at
\* _table_<table>_<name> with all its bytes, from the creation of the
\* manifest on.
C12_AddedObjectsExist ==
    \A n \in DOMAIN files :
        HasPrefix(n, "_log_")
        => \A o \in ManifestAdds(files[n].bytes) : o \in DOMAIN files /\ Complete(files[o])

\* A manifest that adds a data object is complete, in a directory that saw a
\* putIfAbsent fail.
C12_Witness ==
    \E n \in DOMAIN files :
        /\ HasPrefix(n, "_log_") /\ Complete(files[n])
        /\ ManifestAdds(files[n].bytes) # {}
        /\ faults > 0

\* The manifests whose putIfAbsent has returned success.
CommittedLogs ==
    {n \in DOMAIN files :
        /\ HasPrefix(n, "_log_") /\ Complete(files[n])
        /\ \A c \in Clients : call[c].name # n}

\* The ChangeMetadata actions for a table in the committed manifests, each
\* with its manifest and its place in it.
Creations(table) ==
    {<<n, i>> \in CommittedLogs \X (1..2) :
        /\ table \in DOMAIN files[n].bytes.Actions
        /\ i \in DOMAIN files[n].bytes.Actions[table]
        /\ files[n].bytes.Actions[table][i].ChangeMetadata # Nil}

\* C13: the committed manifests together hold at most one ChangeMetadata
\* action for a table.
C13_CreatedOnce ==
    \A table \in TwoTables : Cardinality(Creations(table)) <= 1

\* C14: a transaction that began after the successful commit of one that
\* called createTable(T, cols) has tables[T] = cols.
C14_MetadataSurvives ==
    \A r \in Clients :
        Live(r)
        => \A k \in hist[r].done : \A m \in journal[k].created :
              /\ m[1] \in DOMAIN tx[r].tables
              /\ tx[r].tables[m[1]] = m[2]

\* The data objects of a table in the directory that no transaction but the
\* client's current one flushed.
OwnObjects(c, table) ==
    {n \in DOMAIN files :
        /\ HasPrefix(n, "_table_") /\ n[2] = table
        /\ \A k \in DOMAIN journal : k # ThisTx(c) => n \notin journal[k].objects}

\* The rows a client has written, in the order of its writeRow calls.
RowsInOrder(c, S) ==
    LET ns == {r[2] : r \in S}
        lo == CHOOSE x \in ns : \A y \in ns : x <= y
    IN [i \in 1..Cardinality(S) |-> <<c, lo + i - 1>>]

\* C15: after DATAOBJECT_SIZE + 1 writeRow calls to a table in a transaction
\* that called no flushRows, one data object of the table holds the first DATAOBJECT_SIZE rows with Len =
\* DATAOBJECT_SIZE, the pending actions hold one AddDataobject, for it, and
\* the buffer holds the last row at slot 0 with pointer 1.
C15_FlushAtCapacity ==
    \A c \in Clients, table \in Tables :
        (/\ Live(c) /\ pc[c] = "idle"
         /\ journal[ThisTx(c)].commit = "" /\ ~journal[ThisTx(c)].explicit
         /\ Cardinality(journal[ThisTx(c)].rows) = DATAOBJECT_SIZE + 1)
        => LET written == RowsInOrder(c, journal[ThisTx(c)].rows)
           IN /\ Cardinality(OwnObjects(c, table)) = 1
              /\ \A n \in OwnObjects(c, table) :
                    /\ Complete(files[n])
                    /\ files[n].bytes.Len = DATAOBJECT_SIZE
                    /\ \A i \in 1..DATAOBJECT_SIZE :
                          RowId(files[n].bytes.Data[i - 1]) = written[i]
                    /\ DataobjectNames(tx[c].Actions[table]) = <<n[3]>>
              /\ tx[c].unflushedDataPointer[table] = 1
              /\ tx[c].unflushedData[table][0] = Row(c, written[DATAOBJECT_SIZE + 1][2])

\* A transaction has written DATAOBJECT_SIZE + 1 rows without a flushRows
\* and its writeRow has returned.
C15_Witness ==
    \E c \in Clients :
        /\ Live(c) /\ pc[c] = "idle" /\ ret[c].op = "writeRow"
        /\ ~journal[ThisTx(c)].explicit
        /\ Cardinality(journal[ThisTx(c)].rows) = DATAOBJECT_SIZE + 1

\* The client is inside the putIfAbsent of a flushRows.
InFlush(c) ==
    /\ pc[c] \in {"put_write", "put_sync"}
    /\ call[c].cont \in {"flushRows", "writeRow", "commitFlush"}

\* What a client holds besides its transaction.
Own(c) == <<pc[c], call[c], ntx[c], nrows[c], nuuid[c]>>

\* C17: a step of an idle client with no transaction is a newTx or returns
\* the no-transaction error from createTable, writeRow, flushRows, scan or
\* commitTx with the directory and the client as they were; a newTx of a
\* client with a transaction returns the existing-transaction error with
\* the transaction and the directory as they were.
C17_Lifecycle ==
    [][\A c \in Clients :
          /\ (pc[c] = "idle" /\ ~Live(c) /\ <<ret[c], tx[c], Own(c)>>' # <<ret[c], tx[c], Own(c)>>)
             => \/ ntx'[c] = ntx[c] + 1
                \/ /\ ret'[c].err = "errNoTx"
                   /\ ret'[c].op \in {"createTable", "writeRow", "flushRows", "scan", "commitTx"}
                   /\ files' = files
                   /\ tx' = tx
                   /\ Own(c)' = Own(c)
          /\ (pc[c] = "idle" /\ Live(c) /\ ret'[c].op = "newTx" /\ ret'[c] # ret[c])
             => /\ ret'[c].err = "errExistingTx"
                /\ files' = files
                /\ tx' = tx
                /\ Own(c)' = Own(c)]_vars

\* One client was refused a second newTx and keeps its transaction while the
\* other, with none, was refused an operation; the directory holds files.
C17_Witness ==
    \E c, o \in Clients :
        /\ Live(c) /\ ret[c] = [op |-> "newTx", err |-> "errExistingTx"]
        /\ tx[c].Actions # EmptyMap
        /\ ~Live(o) /\ ret[o].err = "errNoTx" /\ ret[o].op = "commitTx"
        /\ files # EmptyMap

\* C18: in the data object an iterator is in, next has read only slots below
\* Len (the row pointer, the number of slots read, is at most Len), and next
\* does not fail on an index when Len is the capacity.
C18_NextWithinLen ==
    \A c \in Clients :
        /\ (it[c].live /\ it[c].dataobject # Nil)
           => it[c].dataobjectRowPointer <= it[c].dataobject[1].Len
        /\ ret[c] # [op |-> "next", err |-> "panic"]

\* The rows an iterator is to yield: the unflushed rows it copied, then the
\* valid rows of the data objects it listed.
Expected(si) ==
    ValidRows(si.unflushedRows, si.unflushedRowsLen)
    \o ObjectRows(files, si.table, si.dataobjects)

\* C19: the first (nil, nil) that next returns comes after every row the
\* iterator is to yield, and every next after it returns (nil, nil) too.
C19_EndOfSequence ==
    \A c \in Clients :
        it[c].live
        => \A i \in DOMAIN got[c] :
              (got[c][i].row = Nil /\ got[c][i].err = "")
              => /\ Len(Yield(got[c])) = Len(Expected(it[c]))
                 /\ \A j \in DOMAIN got[c] :
                       j > i => got[c][j].row = Nil /\ got[c][j].err = ""

\* C20: once next has returned an error for a data object it could not
\* read, every later next of the iterator returns (nil, nil): the read is
\* not tried again and no further row is returned.
C20_ErrorExhausts ==
    \A c \in Clients :
        it[c].live
        => \A i, j \in DOMAIN got[c] :
              (got[c][i].err # "" /\ j > i)
              => got[c][j].row = Nil /\ got[c][j].err = ""

RECURSIVE Drain(_, _, _)
\* What up to n calls of next on an iterator return, one after the other,
\* up to the first error or panic.
Drain(si, fs, n) ==
    IF n = 0 THEN <<>>
    ELSE LET r == nextOf(si, fs)
         IN IF r.err # "" THEN <<[row |-> r.row, err |-> r.err]>>
            ELSE <<[row |-> r.row, err |-> r.err]>> \o Drain(r.si, fs, n - 1)

\* Reading back one data object of a table: an iterator that lists that
\* object alone, and the rows its next calls return before the first nil
\* row, error or panic.
ReadBack(fs, table, name) ==
    Yield(Drain([NoIterator EXCEPT !.live = TRUE, !.table = table,
                                   !.dataobjects = <<name>>],
                fs, DATAOBJECT_SIZE + 2))

\* C16: the rows next yields from the data object a flushRows has written
\* are the rows the buffer holds at [0, pointer) at the flush: the same rows
\* up to the numeric kind, in the same order, as many; also when the buffer
\* holds rows of an earlier cycle beyond the pointer.
C16_FlushRoundTrip ==
    \A c \in Clients :
        (/\ InFlush(c) /\ pc[c] = "put_sync"
         /\ tx[c].unflushedDataPointer[call[c].table] <= DATAOBJECT_SIZE)
        => ReadBack(files, call[c].table, call[c].uuid)
             = ValidRows(tx[c].unflushedData[call[c].table],
                         tx[c].unflushedDataPointer[call[c].table])

\* The step is a scan or a next of the client.
ScanOrNext(c) ==
    /\ ret'[c].op \in {"scan", "next"}
    /\ ret'[c] # ret[c] \/ got'[c] # got[c] \/ it'[c] # it[c]

\* The iterator as scan made it, before any next.
Fresh(si) == [si EXCEPT !.unflushedRowPointer = 0, !.dataobjectsPointer = 0,
                        !.dataobject = Nil, !.dataobjectRowPointer = 0]

\* C21: an iterator is a snapshot of its transaction. A step that is not a
\* scan or a next of the client (a writeRow, flushRows or createTable of the
\* same transaction, a step of their putIfAbsent) leaves the iterator and
\* what its next calls return as they were; what next has returned, with
\* such steps between the calls, is what the iterator as constructed
\* returns with none, and holds no row written after the scan.
C21_IteratorIsSnapshot ==
    /\ [][\A c \in Clients :
             (it[c].live /\ ~ScanOrNext(c))
             => /\ it'[c] = it[c]
                /\ got'[c] = got[c]
                /\ Drain(it[c], files', MaxNext) = Drain(it[c], files, MaxNext)]_vars
    /\ [](\A c \in Clients :
             (Live(c) /\ hist[c].scanned)
             => /\ Returned(got[c]) \cap (journal[ThisTx(c)].rows \ hist[c].before) = {}
                /\ got[c] = Drain(Fresh(it[c]), files, Len(got[c])))

\* After a scan the transaction wrote a row and flushed a data object the
\* iterator had not listed, and next has returned rows and then (nil, nil).
C21_Witness ==
    \E c \in Clients :
        /\ Live(c) /\ hist[c].scanned /\ pc[c] = "idle"
        /\ journal[ThisTx(c)].rows \ hist[c].before # {}
        /\ Len(DataobjectNames(MapGet(tx[c].Actions, it[c].table, <<>>))) > Len(it[c].dataobjects)
        /\ Returned(got[c]) # {}
        /\ Ended(got[c])

\* The step is the return of a putIfAbsent of the client that failed: the
\* operation that called it goes on, and the file is not in the directory.
PutFailed(c, cont) ==
    /\ pc[c] \in {"put_write", "put_sync"}
    /\ call[c].cont = cont
    /\ pc'[c] = "idle"
    /\ faults' = faults + 1
    /\ call[c].name \notin DOMAIN files'

\* C22: when the flushRows that writeRow calls on a full buffer fails in
\* the store, writeRow returns that error and the transaction is as it was
\* before the call: same rows in the buffer, same counter, no new row.
C22_FailedImplicitFlush ==
    [][\A c \in Clients :
          PutFailed(c, "writeRow")
          => /\ ret'[c].op = "writeRow"
             /\ ret'[c].err # ""
             /\ tx'[c] = tx[c]]_vars

Returns(c, op) ==
    /\ Live(c) /\ pc[c] = "idle" /\ pc'[c] = "idle"
    /\ ret'[c].op = op
    /\ ret'[c] # ret[c]

\* C24: a createTable or writeRow that is rejected changes nothing. A
\* createTable returns the table-exists error when every table it can name
\* is in the transaction's tables and only when one is, a writeRow returns
\* the no-such-table error when no table is and only when one is missing,
\* and with either error the transaction (tables, actions, buffers and
\* pointers), the directory and the client's counters are as they were; a
\* row is taken only for a table in the tables map.
C24_RejectedChangeNothing ==
    [][\A c \in Clients :
          /\ Returns(c, "createTable")
             => /\ DOMAIN tx[c].tables = Tables => ret'[c].err = "errTableExists"
                /\ ret'[c].err = "errTableExists"
                   => /\ DOMAIN tx[c].tables # {}
                      /\ tx' = tx /\ files' = files /\ Own(c)' = Own(c)
                /\ ret'[c].err \in {"", "errTableExists"}
          /\ Returns(c, "writeRow")
             => /\ DOMAIN tx[c].tables = {} => ret'[c].err = "errNoTable"
                /\ ret'[c].err = "errNoTable"
                   => /\ DOMAIN tx[c].tables # Tables
                      /\ tx' = tx /\ files' = files /\ Own(c)' = Own(c)
          /\ (Live(c) /\ nrows'[c] # nrows[c]) => DOMAIN tx[c].tables # {}]_vars

\* A transaction that read the table from the log was refused a second
\* createTable of it, while a transaction of another client, begun on an
\* empty log, was refused a writeRow to the table it has not created.
C24_Witness ==
    \E c, o \in Clients :
        /\ Live(c) /\ ret[c] = [op |-> "createTable", err |-> "errTableExists"]
        /\ tx[c].Actions = EmptyMap
        /\ tx[c].previousActions # EmptyMap
        /\ Live(o) /\ ret[o] = [op |-> "writeRow", err |-> "errNoTable"]
        /\ tx[o].tables = EmptyMap /\ tx[o].unflushedData = EmptyMap

RECURSIVE AddCount(_, _)
\* The number of AddDataobject actions of a manifest in the tables given.
AddCount(bytes, tables) ==
    IF tables = {} THEN 0
    ELSE LET t == CHOOSE x \in tables : TRUE
         IN Len(DataobjectNames(bytes.Actions[t])) + AddCount(bytes, tables \ {t})

\* The ChangeMetadata actions of a manifest, as table and columns.
ManifestCreates(bytes) ==
    UNION {{<<a.ChangeMetadata[1].Table, a.ChangeMetadata[1].Columns>> :
              a \in {x \in Range(bytes.Actions[t]) : x.ChangeMetadata # Nil}} :
           t \in DOMAIN bytes.Actions}

\* The places in a sequence of row identities that hold a given one.
Places(q, row) == {i \in DOMAIN q : q[i] = row}

\* C25: no row is duplicated across the log. A data object is added by one
\* action of one committed manifest; a committed manifest holds the actions
\* of one transaction, the data objects its flushes wrote and the tables it
\* created, and nothing of what that transaction read; and a scan that has
\* returned (nil, nil) has yielded once each row of the transactions whose
\* commit had succeeded when the scanning transaction began.
C25_EachRowOnce ==
    /\ \A n \in CommittedLogs :
          /\ AddCount(files[n].bytes, DOMAIN files[n].bytes.Actions)
                = Cardinality(ManifestAdds(files[n].bytes))
          /\ \A m \in CommittedLogs \ {n} :
                ManifestAdds(files[n].bytes) \cap ManifestAdds(files[m].bytes) = {}
          /\ \E k \in DOMAIN journal :
                /\ ManifestAdds(files[n].bytes) = journal[k].objects
                /\ ManifestCreates(files[n].bytes) = journal[k].created
    /\ \A r \in Clients :
          (Live(r) /\ hist[r].scanned /\ Ended(got[r]))
          => \A k \in hist[r].done : \A row \in journal[k].rows :
                Cardinality(Places(Yield(got[r]), row)) = 1

\* C4: commitTx on a transaction that performed no createTable and no
\* writeRow returns success and leaves the directory as it was, whatever
\* the other clients committed since it began.
C4_ReadOnlyCommit ==
    [][\A c \in Clients :
          (commitTx(c) /\ Live(c) /\ ~hist[c].wrote)
          => (ret'[c] = [op |-> "commitTx", err |-> ""] /\ files' = files)]_vars

\* A read-only commit has succeeded although the manifest its id names was
\* created by another client in the meantime.
C4_Witness ==
    \E c \in Clients :
        /\ Live(c) /\ ~hist[c].wrote
        /\ ret[c] = [op |-> "commitTx", err |-> ""]
        /\ LogName(tx[c].id) \in DOMAIN files

\* The client is inside putIfAbsent, its file created.
InPut(c) == pc[c] \in {"put_write", "put_sync"}

\* C10: no step changes or removes an object but a step of the putIfAbsent
\* that created it, before its return; a putIfAbsent on a name that holds an
\* object returns an error and changes nothing; a putIfAbsent that fails in
\* Write, Sync or Close leaves no object of its name.
C10_AllOrNothing ==
    [][/\ \A n \in DOMAIN files :
            (n \notin DOMAIN files' \/ files'[n] # files[n])
            => \E c \in Clients : InPut(c) /\ call[c].name = n
       /\ \A c \in Clients :
            (Live(c) /\ tx'[c] = NilTx /\ ret'[c].err = "errExist")
            => (LogName(tx[c].id) \in DOMAIN files /\ files' = files)
       /\ \A c \in Clients :
            (InPut(c) /\ faults' # faults /\ call'[c] # call[c])
            => call[c].name \notin DOMAIN files']_vars

\* One commitTx has failed in Write, Sync or Close and its manifest is gone,
\* another has found the name taken.
C10_Witness ==
    \E a, b \in Clients :
        /\ ret[a] = [op |-> "commitTx", err |-> "errIO"]
        /\ ret[b] = [op |-> "commitTx", err |-> "errExist"]
        /\ hist[a].id = hist[b].id
        /\ LogName(hist[a].id) \notin DOMAIN files

====
